---- MODULE Spec2Model ----
(***************************************************************************)
(* Model of flake8_setka_linter.Plugin: the rule table built by            *)
(* Plugin.__init__, the name resolver (get_full_name, get_base_type_name)  *)
(* and the generator Plugin.run, which walks a syntax tree with ast.walk   *)
(* and yields one tuple per rule violation.                                *)
(*                                                                         *)
(* Python strings are TLA+ strings.  The message templates of the source   *)
(* are Russian; the module's lexer takes ASCII only, so they are written   *)
(* in Latin transliteration, with the "{}" slot and the quoting kept.      *)
(***************************************************************************)
EXTENDS Integers, Sequences, FiniteSets, TLC

\* Largest number of statements (class definitions and assignments) of an
\* input tree built from all of Statements.
MaxStmts == 2

\* Largest number of statements of an input tree built from the statements
\* that report (Reporting).
MaxReportingStmts == 3

(***************************************************************************)
(* Python values: the outcome of a call is a value or a raised exception.  *)
(***************************************************************************)
Return(v) == [exc |-> "", val |-> v]

Raise(e) == [exc |-> e]

\* str.endswith
endswith(s, suffix) ==
    /\ Len(s) >= Len(suffix)
    /\ SubSeq(s, Len(s) - Len(suffix) + 1, Len(s)) = suffix

\* str.startswith
startswith(s, prefix) ==
    /\ Len(s) >= Len(prefix)
    /\ SubSeq(s, 1, Len(prefix)) = prefix

\* s.split(".")[-1]: what follows the last "." of s, all of s when it has none.
SplitLast(s) ==
    LET dots == {i \in 1..Len(s) : SubSeq(s, i, i) = "."}
        last == IF dots = {} THEN 0
                ELSE CHOOSE i \in dots : \A j \in dots : j <= i
    IN  SubSeq(s, last + 1, Len(s))

\* template.format(arg) of a template with one "{}" slot: the first "{}" is
\* replaced by arg.
Format(template, arg) ==
    LET slots == {i \in 1..(Len(template) - 1) : SubSeq(template, i, i + 1) = "{}"}
        at == CHOOSE i \in slots : \A j \in slots : i <= j
    IN  SubSeq(template, 1, at - 1) \o arg \o SubSeq(template, at + 2, Len(template))

(***************************************************************************)
(* Syntax-tree nodes (the ast module's node classes that occur here).      *)
(***************************************************************************)
Name(id) == [kind |-> "Name", id |-> id]

Attribute(value, attr) == [kind |-> "Attribute", value |-> value, attr |-> attr]

Call(func, args) == [kind |-> "Call", func |-> func, args |-> args]

Constant == [kind |-> "Constant"]

Subscript(value) == [kind |-> "Subscript", value |-> value]

Tuple(elts) == [kind |-> "Tuple", elts |-> elts]

(***************************************************************************)
(* The resolver.                                                           *)
(***************************************************************************)
RECURSIVE get_full_name(_)
get_full_name(node) ==
    IF node.kind = "Name" THEN Return(node.id)
    ELSE IF node.kind = "Attribute" THEN
        LET value == get_full_name(node.value)
        IN  IF value.exc # "" THEN value
            ELSE IF value.val # "" THEN Return(value.val \o "." \o node.attr)
            ELSE Return(node.attr)
    ELSE IF node.kind = "Call" THEN get_full_name(node.func)
    ELSE Raise("ValueError")

get_base_type_name(node) ==
    LET full_name == get_full_name(node)
    IN  IF full_name.exc # "" THEN full_name
        ELSE Return(SplitLast(full_name.val))

(***************************************************************************)
(* The rule table of Plugin.__init__.                                      *)
(***************************************************************************)
rules == <<
    [error_code |-> "STK001",
     message |-> "Pole '{}' imeet tip DateTime, dolzhno okanchivatsya na '_at' ili '_dt'"],
    [error_code |-> "STK002",
     message |-> "Pole '{}' imeet tip Date, dolzhno okanchivatsya na '_date'"],
    [error_code |-> "STK003",
     message |-> "Pole '{}' dolzhno byt opredeleno kak Enum"],
    [error_code |-> "STK004",
     message |-> "Pole '{}' dolzhno ispolzovat UUID vmesto Integer"],
    [error_code |-> "STK005",
     message |-> "Pole '{}' dolzhno ispolzovat UUID vmesto Integer"] >>

\* condition with the fourth rule's startswith("id_") left out.
condition_no_prefix(k, f) ==
    CASE k = 1 -> Return(f.base_type = "DateTime")
      [] k = 2 -> Return(f.base_type = "Date")
      [] k = 3 -> Return(f.name = "type")
      [] k = 4 -> Return(f.name = "id" \/ endswith(f.name, "_id"))
      [] k = 5 -> Return(f.base_type = "bool")

\* rule["condition"](f) of the rule at index k.
condition(k, f) ==
    CASE k = 1 -> Return(f.base_type = "DateTime")
      [] k = 2 -> Return(f.base_type = "Date")
      [] k = 3 -> Return(f.name = "type")
      [] k = 4 -> Return(\/ f.name = "id"
                         \/ endswith(f.name, "_id")
                         \/ startswith(f.name, "id_"))
      [] k = 5 -> Return(f.base_type = "bool")

\* assertion with the first rule's endswith("_dt") left out.
assertion_at_only(k, f) ==
    CASE k = 1 -> Return(endswith(f.name, "_at"))
      [] k = 2 -> Return(endswith(f.name, "_date"))
      [] k = 3 -> Return(f.full_type = "sqlalchemy.Enum")
      [] k = 4 -> Return(f.full_type = "sqlalchemy.UUID")
      [] k = 5 -> Raise("AttributeError")

\* rule["assertion"](f) of the rule at index k.  The fifth rule calls
\* str.startwith, an attribute str does not have: the call raises
\* AttributeError before any value is computed.
assertion(k, f) ==
    CASE k = 1 -> Return(endswith(f.name, "_at") \/ endswith(f.name, "_dt"))
      [] k = 2 -> Return(endswith(f.name, "_date"))
      [] k = 3 -> Return(f.full_type = "sqlalchemy.Enum")
      [] k = 4 -> Return(f.full_type = "sqlalchemy.UUID")
      [] k = 5 -> Raise("AttributeError")

(***************************************************************************)
(* Input trees.  A tree is the Module node, numbered 0, and a sequence of  *)
(* statements numbered 1..n in document order, one statement per line and  *)
(* four columns of indentation per nesting level, as ast.parse reports     *)
(* them: statement i has lineno i and col_offset 4 * (its nesting depth).  *)
(* A statement is an assignment or a compound statement with a body (a     *)
(* class definition).  Expression nodes are children too, but no           *)
(* expression is an ast.Assign or contains one, so the walk passes over    *)
(* them without effect and they are left out of the queue.                 *)
(***************************************************************************)
Assign(targets, value) == [kind |-> "Assign", targets |-> targets, value |-> value]

ClassDef == [kind |-> "ClassDef"]

Column(type) == Call(Name("Column"), <<type>>)

\* The assignment statements the input trees are built from.
Statements == <<
    \* created = Column(DateTime())
    Assign(<<Name("created")>>, Column(Call(Name("DateTime"), <<>>))),
    \* created_at = x_dt = Column(sa.DateTime())
    Assign(<<Name("created_at"), Name("x_dt")>>,
           Column(Call(Attribute(Name("sa"), "DateTime"), <<>>))),
    \* user_id = Column(Integer())
    Assign(<<Name("user_id")>>, Column(Call(Name("Integer"), <<>>))),
    \* id = id_ref = Column(DateTime())
    Assign(<<Name("id"), Name("id_ref")>>, Column(Call(Name("DateTime"), <<>>))),
    \* id = Column(sqlalchemy.UUID())
    Assign(<<Name("id")>>, Column(Call(Attribute(Name("sqlalchemy"), "UUID"), <<>>))),
    \* active = Column(Boolean())
    Assign(<<Name("active")>>, Column(Call(Name("Boolean"), <<>>))),
    \* is_active = Column(bool)
    Assign(<<Name("is_active")>>, Column(Name("bool"))),
    \* limit = int(10)
    Assign(<<Name("limit")>>, Call(Name("int"), <<Constant>>)),
    \* created = Column(types[0].DateTime())
    Assign(<<Name("created")>>,
           Column(Call(Attribute(Subscript(Name("types")), "DateTime"), <<>>))),
    \* (id, pk) = self.id = row["id"] = Column(Integer())
    Assign(<<Tuple(<<Name("id"), Name("pk")>>), Attribute(Name("self"), "id"),
             Subscript(Name("row"))>>,
           Column(Call(Name("Integer"), <<>>))),
    \* id = 5
    Assign(<<Name("id")>>, Constant),
    \* id = Column()
    Assign(<<Name("id")>>, Call(Name("Column"), <<>>)),
    \* type = Column(Date())
    Assign(<<Name("type")>>, Column(Call(Name("Date"), <<>>))) >>

\* The parent of each statement of a tree in document order: the statement
\* before it, one of that statement's ancestors, or the module.
RECURSIVE AncestorsOrSelf(_, _)
AncestorsOrSelf(parent, i) ==
    IF i = 0 THEN {0} ELSE {i} \cup AncestorsOrSelf(parent, parent[i])

RECURSIVE Depth(_, _)
Depth(parent, i) == IF parent[i] = 0 THEN 0 ELSE 1 + Depth(parent, parent[i])

Shapes(n) ==
    {parent \in [1..n -> 0..(n - 1)] :
        \A i \in 1..n : /\ parent[i] < i
                        /\ parent[i] \in AncestorsOrSelf(parent, i - 1)}

\* Statement i of a tree: 0 in content stands for a class definition, k > 0
\* for Statements[k].
Stmt(parent, content, i) ==
    LET pos == [parent |-> parent[i], lineno |-> i, col_offset |-> 4 * Depth(parent, i)]
    IN  IF content[i] = 0
        THEN pos @@ ClassDef
        ELSE pos @@ Statements[content[i]]

\* The trees of at most max statements whose assignments are among
\* Statements[k], k in stmts; only a class definition has a body.
TreesOver(max, stmts) ==
    UNION {
        {[i \in 1..n |-> Stmt(sc[1], sc[2], i)] :
            sc \in {x \in Shapes(n) \X [1..n -> {0} \cup stmts] :
                       \A i \in 1..n : x[1][i] # 0 => x[2][x[1][i]] = 0}}
        : n \in 1..max}

\* The statements of Statements with diagnostics: created, user_id and
\* id = id_ref.
Reporting == {1, 3, 4}

Trees ==
    TreesOver(MaxStmts, 1..Len(Statements)) \cup TreesOver(MaxReportingStmts, Reporting)

(***************************************************************************)
(* The generator Plugin.run.                                               *)
(***************************************************************************)
VARIABLES
    tree,        \* self.tree: the statements of the input, in document order
    todo,        \* the deque of ast.walk
    pc,          \* where the generator stands: "walk", "targets", "rules",
                 \* "done" (exhausted) or "raised" (ended by an exception)
    node,        \* the loop variable node of run (0: none yet)
    target,      \* index in node.targets of the loop variable target
    field_info,  \* the local field_info
    rule,        \* index in self.rules of the loop variable rule
    out,         \* the tuples yielded so far
    exc,         \* the exception that ended the generator, "" when none
    origin,      \* history: for each tuple of out, the node, target and rule
    fields       \* history: every field_info built, with its node and target

vars == <<tree, todo, pc, node, target, field_info, rule, out, exc, origin, fields>>

NoField == [name |-> "", column_type_node |-> Constant, base_type |-> "", full_type |-> ""]

\* iter_child_nodes(n), statements only: the body of n in document order.
Children(n) ==
    LET ids == {i \in 1..Len(tree) : tree[i].parent = n}
        RECURSIVE Ascending(_)
        Ascending(S) == IF S = {} THEN <<>>
                        ELSE LET m == CHOOSE x \in S : \A y \in S : x <= y
                             IN  <<m>> \o Ascending(S \ {m})
    IN  Ascending(ids)

\* The filters at the head of run's loop body.
IsCandidate(n) ==
    /\ n # 0
    /\ tree[n].kind = "Assign"
    /\ tree[n].value.kind = "Call"
    /\ tree[n].value.args # <<>>

\* isinstance(target, ast.Name)
IsName(t) == t.kind = "Name"

\* Walk with the children put at the front of the deque (depth-first).
Walk_stack(q) == [node |-> Head(q), todo |-> Children(Head(q)) \o Tail(q)]

\* One step of ast.walk on its deque q: node = q.popleft(), then
\* q.extend(iter_child_nodes(node)).
Walk(q) == [node |-> Head(q), todo |-> Tail(q) \o Children(Head(q))]

\* Targets reading node.targets[0] alone.
Targets_first(n) == SubSeq(tree[n].targets, 1, 1)

\* Targets with the elements of tuple targets unpacked.
Targets_flat(n) ==
    LET RECURSIVE Flat(_)
        Flat(ts) == IF ts = <<>> THEN <<>>
                    ELSE (IF Head(ts).kind = "Tuple" THEN Head(ts).elts ELSE <<Head(ts)>>)
                         \o Flat(Tail(ts))
    IN  Flat(tree[n].targets)

\* node.targets
Targets(n) == tree[n].targets

Init ==
    /\ tree \in Trees
    /\ todo = <<0>>
    /\ pc = "walk"
    /\ node = 0
    /\ target = 0
    /\ field_info = NoField
    /\ rule = 0
    /\ out = <<>>
    /\ exc = ""
    /\ origin = <<>>
    /\ fields = <<>>

\* for node in ast.walk(self.tree): the next node, and the three filters.
NextNode ==
    /\ pc = "walk"
    /\ todo # <<>>
    /\ LET n == Walk(todo).node
       IN  /\ todo' = Walk(todo).todo
           /\ node' = n
           /\ IF IsCandidate(n)
              THEN pc' = "targets" /\ target' = 1
              ELSE pc' = "walk" /\ target' = target
    /\ UNCHANGED <<tree, field_info, rule, out, exc, origin, fields>>

\* ast.walk is exhausted: run returns.
WalkDone ==
    /\ pc = "walk"
    /\ todo = <<>>
    /\ pc' = "done"
    /\ UNCHANGED <<tree, todo, node, target, field_info, rule, out, exc, origin, fields>>

\* for target in node.targets: the next target, skipped unless a Name; else
\* field_info is built from the first positional argument.
NextTarget ==
    /\ pc = "targets"
    /\ IF target > Len(Targets(node))
       THEN /\ pc' = "walk"
            /\ UNCHANGED <<target, field_info, rule, exc, fields>>
       ELSE IF ~IsName(Targets(node)[target])
       THEN /\ target' = target + 1
            /\ UNCHANGED <<pc, field_info, rule, exc, fields>>
       ELSE LET column_type_node == tree[node].value.args[1]
                base_type == get_base_type_name(column_type_node)
                full_type == get_full_name(column_type_node)
            IN  IF base_type.exc # ""
                THEN /\ pc' = "raised"
                     /\ exc' = base_type.exc
                     /\ UNCHANGED <<target, field_info, rule, fields>>
                ELSE IF full_type.exc # ""
                THEN /\ pc' = "raised"
                     /\ exc' = full_type.exc
                     /\ UNCHANGED <<target, field_info, rule, fields>>
                ELSE /\ field_info' = [name |-> Targets(node)[target].id,
                                       column_type_node |-> column_type_node,
                                       base_type |-> base_type.val,
                                       full_type |-> full_type.val]
                     /\ fields' = Append(fields, [node |-> node, target |-> target,
                                                  info |-> field_info'])
                     /\ rule' = 1
                     /\ pc' = "rules"
                     /\ UNCHANGED <<target, exc>>
    /\ UNCHANGED <<tree, todo, node, out, origin>>

\* Diagnostic with the column counted from 1.
Diagnostic_one_based(n, k, f) ==
    <<tree[n].lineno,
      tree[n].col_offset + 1,
      Format("{}: ", rules[k].error_code) \o Format(rules[k].message, f.name),
      "Plugin">>

\* The tuple run yields for the rule at index k.
Diagnostic(n, k, f) ==
    <<tree[n].lineno,
      tree[n].col_offset,
      Format("{}: ", rules[k].error_code) \o Format(rules[k].message, f.name),
      "Plugin">>

\* for rule in self.rules: the next rule; a tuple is yielded when its
\* condition holds and its assertion does not.
NextRule ==
    /\ pc = "rules"
    /\ IF rule > Len(rules)
       THEN /\ pc' = "targets"
            /\ target' = target + 1
            /\ UNCHANGED <<rule, out, exc, origin>>
       ELSE LET c == condition(rule, field_info)
                a == assertion(rule, field_info)
            IN  IF ~c.val
                THEN /\ rule' = rule + 1
                     /\ UNCHANGED <<pc, target, out, exc, origin>>
                ELSE IF a.exc # ""
                THEN /\ pc' = "raised"
                     /\ exc' = a.exc
                     /\ UNCHANGED <<target, rule, out, origin>>
                ELSE IF a.val
                THEN /\ rule' = rule + 1
                     /\ UNCHANGED <<pc, target, out, exc, origin>>
                ELSE /\ out' = Append(out, Diagnostic(node, rule, field_info))
                     /\ origin' = Append(origin, [node |-> node, target |-> target,
                                                  rule |-> rule])
                     /\ rule' = rule + 1
                     /\ UNCHANGED <<pc, target, exc>>
    /\ UNCHANGED <<tree, todo, node, field_info, fields>>

Next == NextNode \/ WalkDone \/ NextTarget \/ NextRule

Spec == Init /\ [][Next]_vars

(***************************************************************************)
(* Vocabulary of the properties.                                           *)
(***************************************************************************)
\* The tuples of out that run yielded for the field declaration fields[i]
\* and whose text starts with the code of the rule at index k.
DiagsOf(i, k) ==
    {j \in 1..Len(out) :
        /\ origin[j].node = fields[i].node
        /\ origin[j].target = fields[i].target
        /\ startswith(out[j][3], rules[k].error_code \o ":")}

\* The rule at index k has been applied to fields[i]: the rule loop of that
\* declaration has passed it.
Applied(i, k) ==
    \/ i < Len(fields)
    \/ i = Len(fields) /\ (pc \in {"walk", "targets", "done"} \/ rule > k)

\* The run has stopped working on fields[i]: its rule loop has ended or an
\* exception has ended the generator.
Over(i) == i < Len(fields) \/ pc # "rules" \/ rule > Len(rules)

AtNodePosition(j) ==
    /\ out[j][1] = tree[origin[j].node].lineno
    /\ out[j][2] = tree[origin[j].node].col_offset

EndsAtOrDt(name) == endswith(name, "_at") \/ endswith(name, "_dt")

IdLike(name) == name = "id" \/ endswith(name, "_id") \/ startswith(name, "id_")

\* C1: a field declaration run has visited, whose base_type is "DateTime":
\* if its name ends with neither "_at" nor "_dt", exactly one STK001 tuple is
\* yielded for it, at the position of its assignment node; if its name ends
\* with "_at" or "_dt", none is.
C1_DateTimeNaming ==
    \A i \in 1..Len(fields) :
        LET f == fields[i].info
        IN  f.base_type = "DateTime" =>
              /\ \A j \in DiagsOf(i, 1) : AtNodePosition(j)
              /\ EndsAtOrDt(f.name) => DiagsOf(i, 1) = {}
              /\ Cardinality(DiagsOf(i, 1)) <= 1
              /\ (Applied(i, 1) /\ ~EndsAtOrDt(f.name)) => Cardinality(DiagsOf(i, 1)) = 1

\* Both cases of C1 in one finished run: "created" reported once, "x_dt" (of
\* sa.DateTime) passed without a report.
C1_Witness ==
    /\ pc = "done"
    /\ \E i, j \in 1..Len(fields) :
        /\ fields[i].info.name = "created"
        /\ fields[i].info.base_type = "DateTime"
        /\ Cardinality(DiagsOf(i, 1)) = 1
        /\ fields[j].info.name = "x_dt"
        /\ fields[j].info.base_type = "DateTime"
        /\ DiagsOf(j, 1) = {}

\* C2: a field declaration named "id", "*_id" or "id_*": if its full_type is
\* not "sqlalchemy.UUID", exactly one STK004 tuple is yielded for it; a field
\* declaration whose full_type is "sqlalchemy.UUID" gets none.
C2_IdentifierTyping ==
    \A i \in 1..Len(fields) :
        LET f == fields[i].info
        IN  /\ f.full_type = "sqlalchemy.UUID" => DiagsOf(i, 4) = {}
            /\ Cardinality(DiagsOf(i, 4)) <= 1
            /\ (IdLike(f.name) /\ f.full_type # "sqlalchemy.UUID" /\ Applied(i, 4))
                  => Cardinality(DiagsOf(i, 4)) = 1

\* The cases of C2 in one finished run: "user_id" of Integer and "id_ref" of
\* DateTime reported once each, or "id" of sqlalchemy.UUID passed.
C2_Witness ==
    /\ pc = "done"
    /\ \E i, j \in 1..Len(fields) :
        /\ fields[i].info.name = "user_id"
        /\ fields[i].info.full_type = "Integer"
        /\ Cardinality(DiagsOf(i, 4)) = 1
        /\ \/ /\ fields[j].info.name = "id"
              /\ fields[j].info.full_type = "sqlalchemy.UUID"
              /\ DiagsOf(j, 4) = {}
           \/ /\ fields[j].info.name = "id_ref"
              /\ Cardinality(DiagsOf(j, 4)) = 1

\* C3: every field declaration whose base_type is "bool" gets exactly one
\* STK005 tuple, whatever its name, and the run goes on: no exception ends
\* the generator there.
C3_BoolAlwaysReported ==
    \A i \in 1..Len(fields) :
        (fields[i].info.base_type = "bool" /\ Over(i)) =>
            /\ Cardinality(DiagsOf(i, 5)) = 1
            /\ ~(i = Len(fields) /\ exc = "AttributeError")

\* C4: for active = Column(Boolean()) run yields exactly one STK005 tuple.
C4_BooleanCallReported ==
    \A i \in 1..Len(fields) :
        (/\ fields[i].info.name = "active"
         /\ fields[i].info.column_type_node = Call(Name("Boolean"), <<>>)
         /\ Over(i)) =>
            Cardinality(DiagsOf(i, 5)) = 1

\* The candidates of the tree whose type expression the resolver accepts.
Classifiable(n) == IsCandidate(n) /\ get_full_name(tree[n].value.args[1]).exc = ""

\* C5: a candidate whose type expression is no Name, Attribute or Call (at
\* any depth) is skipped: no exception leaves run, nothing is yielded for it,
\* and the later candidates are analysed all the same.
C5_UnclassifiableSkipped ==
    /\ exc # "ValueError"
    /\ \A j \in 1..Len(out) : Classifiable(origin[j].node)
    /\ pc = "done" =>
          \A n \in {m \in 1..Len(tree) : Classifiable(m)} :
              \A t \in {u \in 1..Len(tree[n].targets) : IsName(tree[n].targets[u])} :
                  \E i \in 1..Len(fields) : fields[i].node = n /\ fields[i].target = t

(***************************************************************************)
(* Order of the output.                                                    *)
(***************************************************************************)
\* Nesting depth of statement n (0 for a statement of the module body).
RECURSIVE Level(_)
Level(n) == IF tree[n].parent = 0 THEN 0 ELSE 1 + Level(tree[n].parent)

\* Statement a comes before statement b in document order (depth-first
\* pre-order): statements are numbered in that order.
DocumentBefore(a, b) == a < b

\* Statement a comes before statement b in breadth-first order: a shallower
\* statement first, document order within one depth.
BreadthBefore(a, b) == Level(a) < Level(b) \/ (Level(a) = Level(b) /\ a < b)

\* Within one assignment, tuples follow the order of targets and, within one
\* target, the order of the rule table.
WithinNodeOrdered(i, j) ==
    origin[i].node = origin[j].node =>
        \/ origin[i].target < origin[j].target
        \/ origin[i].target = origin[j].target /\ origin[i].rule < origin[j].rule

\* C6 as stated: the tuples come by assignment in document order (depth-first
\* pre-order), within one declaration in rule order.
C6_DocumentOrder ==
    \A i, j \in 1..Len(out) :
        i < j => /\ origin[i].node = origin[j].node
                    \/ DocumentBefore(origin[i].node, origin[j].node)
                 /\ WithinNodeOrdered(i, j)

\* C6 amended: the tuples come by assignment in breadth-first order of the
\* tree (every statement of one nesting depth before any deeper statement,
\* document order within a depth), within one assignment by target, within
\* one declaration in rule order.
C6_BreadthFirstOrder ==
    \A i, j \in 1..Len(out) :
        i < j => /\ origin[i].node = origin[j].node
                    \/ BreadthBefore(origin[i].node, origin[j].node)
                 /\ WithinNodeOrdered(i, j)

\* An assignment nested in a class body reports after a later statement of
\* the module body, and one declaration reports twice.
C6_Witness ==
    /\ \E i, j \in 1..Len(out) :
        /\ i < j
        /\ origin[j].node < origin[i].node
        /\ Level(origin[j].node) > Level(origin[i].node)
    /\ \E i, j \in 1..Len(out) :
        /\ i < j
        /\ origin[i].node = origin[j].node
        /\ origin[i].target = origin[j].target

(***************************************************************************)
(* Candidates and field declarations.                                      *)
(***************************************************************************)
\* The field declarations built for target t of statement n.
FieldsOf(n, t) == {i \in 1..Len(fields) : fields[i].node = n /\ fields[i].target = t}

Assignments == {n \in 1..Len(tree) : tree[n].kind = "Assign"}

\* The target loop of run has gone past target t of statement n, or the
\* whole run has ended normally.
Passed(n, t) ==
    \/ pc = "done"
    \/ node = n /\ pc = "targets" /\ target > t

\* C7 as stated: an assignment yields at most one FieldDeclaration, and an
\* assignment with two or more targets yields none, and no diagnostic.
C7_SingleTargetOnly ==
    \A n \in Assignments :
        /\ Cardinality({i \in 1..Len(fields) : fields[i].node = n}) <= 1
        /\ Len(tree[n].targets) >= 2 =>
              /\ \A i \in 1..Len(fields) : fields[i].node # n
              /\ \A j \in 1..Len(out) : origin[j].node # n

\* C7 amended: assignments with any number of targets are candidates; each
\* target that is a simple name yields exactly one FieldDeclaration once the
\* target loop has gone past it, and no target ever yields more than one.
C7_OnePerNameTarget ==
    \A n \in Assignments : \A t \in 1..Len(tree[n].targets) :
        /\ Cardinality(FieldsOf(n, t)) <= 1
        /\ (/\ tree[n].value.kind = "Call"
            /\ tree[n].value.args # <<>>
            /\ tree[n].targets[t].kind = "Name"
            /\ Passed(n, t)) => Cardinality(FieldsOf(n, t)) = 1

\* a = b = Column(DateTime()) in a finished run: two FieldDeclarations and a
\* tuple for each.
C7_Witness ==
    /\ pc = "done"
    /\ \E n \in Assignments :
        /\ Len(tree[n].targets) = 2
        /\ FieldsOf(n, 1) # {} /\ FieldsOf(n, 2) # {}
        /\ \E i, j \in 1..Len(out) :
            /\ origin[i].node = n /\ origin[i].target = 1
            /\ origin[j].node = n /\ origin[j].target = 2

\* Statement n and its target t make a field declaration: the value is a
\* call with a positional argument and the target is a simple name.
Declares(n, t) ==
    /\ tree[n].kind = "Assign"
    /\ tree[n].value.kind = "Call"
    /\ tree[n].value.args # <<>>
    /\ t \in 1..Len(tree[n].targets)
    /\ tree[n].targets[t].kind = "Name"

\* C8: a tuple, attribute or subscript target, an assignment whose value is
\* no call, and a call without positional arguments yield nothing: every
\* FieldDeclaration and every tuple of out comes from a simple-name target of
\* an assignment of a call with a positional argument.
C8_OnlyNameTargetsOfCalls ==
    /\ \A i \in 1..Len(fields) : Declares(fields[i].node, fields[i].target)
    /\ \A j \in 1..Len(out) : Declares(origin[j].node, origin[j].target)

\* A finished run over (id, pk) = self.id = row["id"] = Column(Integer())
\* and id = 5 or id = Column(): nothing built, nothing yielded.
C8_Witness ==
    /\ pc = "done"
    /\ out = <<>>
    /\ fields = <<>>
    /\ \E n, m \in Assignments :
        /\ tree[n].value.kind = "Call" /\ tree[n].value.args # <<>>
        /\ \A t \in 1..Len(tree[n].targets) : tree[n].targets[t].kind # "Name"
        /\ \E t \in 1..Len(tree[n].targets) : tree[n].targets[t].kind = "Tuple"
        /\ tree[m].targets = <<Name("id")>>
        /\ \/ tree[m].value.kind # "Call"
           \/ tree[m].value.kind = "Call" /\ tree[m].value.args = <<>>

(***************************************************************************)
(* The yielded tuples.                                                     *)
(***************************************************************************)
\* "<error_code>: <message with the name in its slot>"; every message
\* starts "Pole '{}'".
ExpectedText(k, name) ==
    rules[k].error_code \o ": Pole '" \o name
        \o SubSeq(rules[k].message, 9, Len(rules[k].message))

TextOf(j) ==
    ExpectedText(origin[j].rule, tree[origin[j].node].targets[origin[j].target].id)

\* C9 as stated: every tuple carries the 1-based line and the 1-based column
\* of its assignment node (never column 0) and the text
\* "<error_code>: <message>".
C9_OneBasedPosition ==
    \A j \in 1..Len(out) :
        /\ out[j][1] = tree[origin[j].node].lineno
        /\ out[j][1] >= 1
        /\ out[j][2] = tree[origin[j].node].col_offset + 1
        /\ out[j][2] >= 1
        /\ out[j][3] = TextOf(j)

\* C9 amended: every tuple carries the 1-based line (lineno) and the
\* 0-based column (col_offset) of its assignment node, so an assignment at
\* the start of a line is reported at column 0, and the text
\* "<error_code>: <message>".
C9_LineAndOffset ==
    \A j \in 1..Len(out) :
        /\ out[j][1] = tree[origin[j].node].lineno
        /\ out[j][1] >= 1
        /\ out[j][2] = tree[origin[j].node].col_offset
        /\ out[j][2] >= 0
        /\ out[j][3] = TextOf(j)

\* A tuple at column 0 and a tuple of a nested assignment at column 4.
C9_Witness ==
    \E i, j \in 1..Len(out) :
        /\ out[i][2] = 0 /\ tree[origin[i].node].parent = 0
        /\ out[j][2] = 4 /\ tree[origin[j].node].parent # 0
        /\ out[j][3] = "STK004: Pole 'user_id' dolzhno ispolzovat UUID vmesto Integer"

(***************************************************************************)
(* The evaluator.                                                          *)
(***************************************************************************)
\* The rule at index k fires on f: its condition holds and its assertion
\* does not.
Fires(k, f) ==
    /\ condition(k, f).val
    /\ ~(assertion(k, f).exc = "" /\ assertion(k, f).val)

\* C10: all five rules are applied to every field declaration, in table
\* order and without stopping early: the tuples of a declaration are one for
\* each rule that fires on it and none for the other rules.
C10_EveryRuleApplied ==
    \A i \in 1..Len(fields) :
        Over(i) =>
            \A k \in 1..Len(rules) :
                /\ Applied(i, k)
                /\ Cardinality(DiagsOf(i, k)) = (IF Fires(k, fields[i].info) THEN 1 ELSE 0)

====
